---- MODULE Spec2Model ----
(***************************************************************************)
(* Model of lib/fosphor/gl.c: the OpenGL part of fosphor.                  *)
(*                                                                         *)
(* The state is the owner's reference self->gl, the fosphor_gl_state block *)
(* it points to, and the objects living behind it: the GL texture and      *)
(* buffer names in use, the font and the colormap context.  There is one   *)
(* action per exposed function: fosphor_gl_init, fosphor_gl_release,       *)
(* fosphor_gl_get_shared_id and fosphor_gl_draw.  A draw is recorded as    *)
(* the sequence of GL / font calls it issues.                              *)
(*                                                                         *)
(* Calling protocol (fosphor.c, the only caller): fosphor_gl_init runs on  *)
(* an owner whose gl reference is NULL (the owner is zero-filled), and     *)
(* get_shared_id / draw run on an owner whose gl reference is set; both    *)
(* dereference it unconditionally.                                         *)
(*                                                                         *)
(* GL names: glGenTextures / glGenBuffers return any unused non-zero name. *)
(* Nothing in gl.c looks at the value of a name, so behaviours differ only *)
(* by a renaming of names; the model keeps one representative and hands    *)
(* out the lowest unused name.                                             *)
(***************************************************************************)
EXTENDS Integers, Sequences, FiniteSets, TLC

VARIABLES
    self_gl,      \* self->gl: 0 (NULL) or 1 (address of the state block)
    gl,           \* contents of the struct fosphor_gl_state block
    state_live,   \* the block is allocated (malloc'ed and not yet free'd)
    font_live,    \* the gl_font object exists
    ctx_live,     \* the colormap context exists
    textures,     \* GL texture names in use
    buffers,      \* GL buffer names in use
    created,      \* objects created since the last fosphor_gl_init began, by kind
    destroyed,    \* objects destroyed since the last fosphor_gl_init began, by kind
    gen_passes,   \* times the body of gl_deferred_init ran on the current state block
    faults,       \* memory faults: NULL dereference, use after free, double free
    aborted,      \* abort() was called: the process is gone
    last,         \* the last API call: [op, id, ptr, ret, note]
    after_first,  \* the three handles as they were when the first get_shared_id
                  \* on this state block returned
    render,       \* the render request of the last draw: [options, ks, ke]
    gl_calls      \* the calls issued by the last draw, in order

life_vars == <<self_gl, gl, state_live, font_live, ctx_live, textures, buffers,
               created, destroyed, gen_passes, faults, aborted>>
vars == <<self_gl, gl, state_live, font_live, ctx_live, textures, buffers,
          created, destroyed, gen_passes, faults, aborted,
          last, after_first, render, gl_calls>>

(***************************************************************************)
(* Bounds and constants                                                    *)
(***************************************************************************)

\* freq_start and freq_stop are drawn from the grid {0, 1/FreqDen, ..., 1}
FreqDen == 2

\* FOSPHOR_FFT_LEN (private.h): number of bins
FOSPHOR_FFT_LEN == 1024

ENOMEM == 12
ENOENT == 2

Kinds == {"state", "font", "cmap_ctx", "texture", "buffer"}

NoCount == [k \in Kinds |-> 0]

\* enum fosphor_gl_id, plus one value outside the enumeration
GL_ID_TEX_WATERFALL == "GL_ID_TEX_WATERFALL"
GL_ID_TEX_HISTOGRAM == "GL_ID_TEX_HISTOGRAM"
GL_ID_VBO_SPECTRUM  == "GL_ID_VBO_SPECTRUM"
GL_ID_OTHER         == "GL_ID_OTHER"

SharedIds == {GL_ID_TEX_WATERFALL, GL_ID_TEX_HISTOGRAM, GL_ID_VBO_SPECTRUM}
AllIds    == SharedIds \cup {GL_ID_OTHER}

\* struct fosphor_gl_state after memset(gl, 0, ...)
GlZero ==
    [ init_complete  |-> 0,
      font           |-> 0,
      cmap_ctx       |-> 0,
      cmap_waterfall |-> 0,
      cmap_histogram |-> 0,
      tex_waterfall  |-> 0,
      tex_histogram  |-> 0,
      vbo_spectrum   |-> 0 ]

(***************************************************************************)
(* The world as one record, so that a function calling another (init's     *)
(* error path calls release) is the composition of two operators.          *)
(***************************************************************************)

World ==
    [ self_gl    |-> self_gl,
      gl         |-> gl,
      state_live |-> state_live,
      font_live  |-> font_live,
      ctx_live   |-> ctx_live,
      textures   |-> textures,
      buffers    |-> buffers,
      created    |-> created,
      destroyed  |-> destroyed,
      gen_passes |-> gen_passes,
      faults     |-> faults,
      aborted    |-> aborted ]

SetWorld(w) ==
    /\ self_gl'    = w.self_gl
    /\ gl'         = w.gl
    /\ state_live' = w.state_live
    /\ font_live'  = w.font_live
    /\ ctx_live'   = w.ctx_live
    /\ textures'   = w.textures
    /\ buffers'    = w.buffers
    /\ created'    = w.created
    /\ destroyed'  = w.destroyed
    /\ gen_passes' = w.gen_passes
    /\ faults'     = w.faults
    /\ aborted'    = w.aborted

Count(f, k) == [f EXCEPT ![k] = @ + 1]

(***************************************************************************)
(* C integers: rv |= x on 32-bit two's complement ints                     *)
(***************************************************************************)

\* the low 31 bits of a 32-bit int (TLC's integers are 32-bit themselves, so
\* 2^31 is written as 2147483647 + 1 in two steps)
Low31(x) == IF x >= 0 THEN x ELSE (x + 2147483647) + 1

RECURSIVE OrBits(_, _, _)
OrBits(a, b, n) ==
    IF n = 0 THEN 0
    ELSE (IF (a % 2 = 1) \/ (b % 2 = 1) THEN 1 ELSE 0)
         + 2 * OrBits(a \div 2, b \div 2, n - 1)

\* a | b: the sign bit is the OR of the sign bits
BitOr(a, b) ==
    LET low == OrBits(Low31(a), Low31(b), 31)
    IN  IF a < 0 \/ b < 0 THEN (low - 2147483647) - 1 ELSE low

(***************************************************************************)
(* GL object names                                                         *)
(***************************************************************************)

\* the name glGenTextures / glGenBuffers hands out: unused and non-zero
NewName(used) ==
    CHOOSE n \in 1..(Cardinality(used) + 1) :
        /\ n \notin used
        /\ \A m \in 1..(n - 1) : m \in used

\* glGenTextures(1, &id)
glGenTextures(w) ==
    [ w  |-> [w EXCEPT !.textures = @ \cup {NewName(w.textures)},
                       !.created  = Count(@, "texture")],
      id |-> NewName(w.textures) ]

\* glGenBuffers(1, &id)
glGenBuffers(w) ==
    [ w  |-> [w EXCEPT !.buffers = @ \cup {NewName(w.buffers)},
                       !.created = Count(@, "buffer")],
      id |-> NewName(w.buffers) ]

\* glDeleteTextures(1, &id): zero and unused names are silently ignored
glDeleteTextures(w, id) ==
    IF id \in w.textures
    THEN [w EXCEPT !.textures  = @ \ {id},
                   !.destroyed = Count(@, "texture")]
    ELSE w

\* glDeleteBuffers(1, &id): zero and unused names are silently ignored
glDeleteBuffers(w, id) ==
    IF id \in w.buffers
    THEN [w EXCEPT !.buffers   = @ \ {id},
                   !.destroyed = Count(@, "buffer")]
    ELSE w

(***************************************************************************)
(* Collaborators of gl.c: font (gl_font.c) and colormap (gl_cmap.c)        *)
(***************************************************************************)

\* glf_alloc: a font object, or NULL
glf_alloc(w, ok) ==
    IF ok
    THEN [ w |-> [w EXCEPT !.font_live = TRUE, !.created = Count(@, "font")],
           p |-> 1 ]
    ELSE [ w |-> w, p |-> 0 ]

\* glf_free: frees the font; a NULL font is left alone
glf_free(w, p) ==
    IF p = 0 THEN w
    ELSE IF ~w.font_live THEN [w EXCEPT !.faults = @ \cup {"double_free"}]
    ELSE [w EXCEPT !.font_live = FALSE, !.destroyed = Count(@, "font")]

\* fosphor_gl_cmap_init: a colormap context, or NULL
fosphor_gl_cmap_init(w, ok) ==
    IF ok
    THEN [ w |-> [w EXCEPT !.ctx_live = TRUE, !.created = Count(@, "cmap_ctx")],
           p |-> 1 ]
    ELSE [ w |-> w, p |-> 0 ]

\* fosphor_gl_cmap_release: frees the context; a NULL context is left alone
fosphor_gl_cmap_release(w, p) ==
    IF p = 0 THEN w
    ELSE IF ~w.ctx_live THEN [w EXCEPT !.faults = @ \cup {"double_free"}]
    ELSE [w EXCEPT !.ctx_live = FALSE, !.destroyed = Count(@, "cmap_ctx")]

\* fosphor_gl_cmap_generate(&id, fn, 256): on success a new LUT texture whose
\* name is stored in id.  A failure either happens before the texture is
\* generated (id untouched) or after (the name is stored all the same).
GenOutcomes == {"ok", "fail_early", "fail_late"}

fosphor_gl_cmap_generate(w, id, outcome, fail_rv) ==
    IF outcome = "fail_early"
    THEN [ w |-> w, id |-> id, rv |-> fail_rv ]
    ELSE [ w  |-> glGenTextures(w).w,
           id |-> glGenTextures(w).id,
           rv |-> IF outcome = "ok" THEN 0 ELSE fail_rv ]

FailCodes == {-ENOMEM, -1}

(***************************************************************************)
(* gl_deferred_init                                                        *)
(***************************************************************************)

\* gl_vbo_clear: abort() when the buffer cannot be mapped
gl_vbo_clear(w, map_ok) ==
    IF map_ok THEN w ELSE [w EXCEPT !.aborted = TRUE]

\* the body of gl_deferred_init behind the init_complete guard
deferred_create(w, map_ok) ==
    LET w0 == [w EXCEPT !.gl.init_complete = 1, !.gen_passes = @ + 1]
        t1 == glGenTextures(w0)
        w1 == [t1.w EXCEPT !.gl.tex_waterfall = t1.id]
        t2 == glGenTextures(w1)
        w2 == [t2.w EXCEPT !.gl.tex_histogram = t2.id]
        b  == glGenBuffers(w2)
        w3 == [b.w EXCEPT !.gl.vbo_spectrum = b.id]
    IN  gl_vbo_clear(w3, map_ok)

gl_deferred_init_unguarded(w, map_ok) == deferred_create(w, map_ok)

gl_deferred_init(w, map_ok) ==
    IF w.gl.init_complete # 0 THEN w ELSE deferred_create(w, map_ok)

(***************************************************************************)
(* fosphor_gl_release                                                      *)
(***************************************************************************)

\* free(gl): the block is gone, what it held can no longer be read
free_state(w) ==
    IF ~w.state_live
    THEN [w EXCEPT !.faults = @ \cup {"double_free"}]
    ELSE [w EXCEPT !.state_live = FALSE,
                   !.gl         = GlZero,
                   !.destroyed  = Count(@, "state")]

\* the body of fosphor_gl_release behind the NULL check, up to free(gl)
release_all(w) ==
    LET g  == w.gl
        w0 == IF w.state_live THEN w
              ELSE [w EXCEPT !.faults = @ \cup {"use_after_free"}]
        w1 == glDeleteBuffers(w0, g.vbo_spectrum)
        w2 == glDeleteTextures(w1, g.tex_histogram)
        w3 == glDeleteTextures(w2, g.tex_waterfall)
        w4 == glDeleteTextures(w3, g.cmap_histogram)
        w5 == glDeleteTextures(w4, g.cmap_waterfall)
        w6 == fosphor_gl_cmap_release(w5, g.cmap_ctx)
        w7 == glf_free(w6, g.font)
    IN  free_state(w7)

fosphor_gl_release_keeps_ref(w) ==
    IF w.self_gl = 0 THEN w ELSE release_all(w)

fosphor_gl_release_leaks_lut(w) ==
    IF w.self_gl = 0 THEN w
    ELSE LET g  == w.gl
             w1 == glDeleteBuffers(w, g.vbo_spectrum)
             w2 == glDeleteTextures(w1, g.tex_histogram)
             w3 == glDeleteTextures(w2, g.tex_waterfall)
             w5 == glDeleteTextures(w3, g.cmap_waterfall)
             w6 == fosphor_gl_cmap_release(w5, g.cmap_ctx)
             w7 == glf_free(w6, g.font)
         IN  [free_state(w7) EXCEPT !.self_gl = 0]

fosphor_gl_release(w) ==
    IF w.self_gl = 0 THEN w
    ELSE [release_all(w) EXCEPT !.self_gl = 0]

(***************************************************************************)
(* fosphor_gl_init                                                         *)
(***************************************************************************)

\* what the collaborators and malloc answer during one fosphor_gl_init
InitInputs ==
    [ malloc_ok : BOOLEAN,
      font_ok   : BOOLEAN,
      res_ok    : BOOLEAN,
      load_rv   : {0} \cup FailCodes,
      ctx_ok    : BOOLEAN,
      gen_wf    : GenOutcomes,
      gen_histo : GenOutcomes,
      gen_rv    : FailCodes ]

\* the error: label
init_error_no_release(w, rv) == [ w |-> w, rv |-> rv ]

init_error(w, rv) == [ w |-> fosphor_gl_release(w), rv |-> rv ]

\* the color mapping part of fosphor_gl_init
init_cmap(w, in) ==
    LET c   == fosphor_gl_cmap_init(w, in.ctx_ok)
        w1  == [c.w EXCEPT !.gl.cmap_ctx = c.p]
        rv0 == IF c.p = 0 THEN 1 ELSE 0
        g1  == fosphor_gl_cmap_generate(w1, w1.gl.cmap_waterfall, in.gen_wf, in.gen_rv)
        w2  == [g1.w EXCEPT !.gl.cmap_waterfall = g1.id]
        rv1 == BitOr(rv0, g1.rv)
        g2  == fosphor_gl_cmap_generate(w2, w2.gl.cmap_histogram, in.gen_histo, in.gen_rv)
        w3  == [g2.w EXCEPT !.gl.cmap_histogram = g2.id]
        rv2 == BitOr(rv1, g2.rv)
    IN  IF rv2 # 0 THEN init_error(w3, rv2) ELSE [ w |-> w3, rv |-> 0 ]

fosphor_gl_init(w, in) ==
    IF ~in.malloc_ok THEN [ w |-> w, rv |-> -ENOMEM ]
    ELSE
    LET w1 == [w EXCEPT !.state_live = TRUE,
                        !.created    = Count(@, "state"),
                        !.self_gl    = 1,
                        !.gl         = GlZero,
                        !.gen_passes = 0]
        f  == glf_alloc(w1, in.font_ok)
        w2 == [f.w EXCEPT !.gl.font = f.p]
    IN  IF f.p = 0 THEN init_error(w2, -ENOMEM)
        ELSE IF ~in.res_ok THEN init_error(w2, -ENOENT)
        ELSE IF in.load_rv # 0 THEN init_error(w2, in.load_rv)
        ELSE init_cmap(w2, in)

(***************************************************************************)
(* fosphor_gl_get_shared_id                                                *)
(***************************************************************************)

\* the switch of fosphor_gl_get_shared_id
shared_id(g, id) ==
    CASE id = GL_ID_TEX_WATERFALL -> g.tex_waterfall
      [] id = GL_ID_TEX_HISTOGRAM -> g.tex_histogram
      [] id = GL_ID_VBO_SPECTRUM  -> g.vbo_spectrum
      [] OTHER                    -> 0

fosphor_gl_get_shared_id(w, id, map_ok) ==
    LET w1 == gl_deferred_init(w, map_ok)
    IN  [ w |-> w1, ret |-> shared_id(w1.gl, id) ]

(***************************************************************************)
(* Actions                                                                 *)
(*                                                                         *)
(* last records the call just made: op; id, the id asked of get_shared_id; *)
(* ptr, the value of self->gl a release found; ret, the value returned;    *)
(* note, for an init the first step that failed ("" when none did), for a  *)
(* release the call made before it, for a get_shared_id whether it is the  *)
(* first on this state block or a later one.                               *)
(***************************************************************************)

Call(op, id, ptr, ret, note) ==
    [ op |-> op, id |-> id, ptr |-> ptr, ret |-> ret, note |-> note ]

NoCall   == Call("none", "", 0, 0, "")
NoFirst  == [ set |-> FALSE, h |-> [i \in SharedIds |-> 0] ]
NoRender == [ options |-> {}, ks |-> 0, ke |-> 0 ]

\* the first step of fosphor_gl_init that fails under the inputs in
FirstFailure(in) ==
    IF ~in.malloc_ok THEN "malloc"
    ELSE IF ~in.font_ok THEN "glf_alloc"
    ELSE IF ~in.res_ok THEN "resource_get"
    ELSE IF in.load_rv # 0 THEN "glf_load_face_mem"
    ELSE IF ~in.ctx_ok THEN "fosphor_gl_cmap_init"
    ELSE IF in.gen_wf # "ok" THEN "fosphor_gl_cmap_generate_waterfall"
    ELSE IF in.gen_histo # "ok" THEN "fosphor_gl_cmap_generate_histogram"
    ELSE ""

Init ==
    /\ self_gl = 0
    /\ gl = GlZero
    /\ state_live = FALSE
    /\ font_live = FALSE
    /\ ctx_live = FALSE
    /\ textures = {}
    /\ buffers = {}
    /\ created = NoCount
    /\ destroyed = NoCount
    /\ gen_passes = 0
    /\ faults = {}
    /\ aborted = FALSE
    /\ last = NoCall
    /\ after_first = NoFirst
    /\ render = NoRender
    /\ gl_calls = << >>

GlInit ==
    /\ ~aborted
    /\ self_gl = 0
    /\ \E in \in InitInputs :
         LET r == fosphor_gl_init([World EXCEPT !.created = NoCount,
                                                !.destroyed = NoCount], in)
         IN  /\ SetWorld(r.w)
             /\ last' = Call("init", "", 0, r.rv, FirstFailure(in))
    /\ after_first' = NoFirst
    /\ render' = NoRender
    /\ gl_calls' = << >>

GlRelease ==
    /\ ~aborted
    /\ SetWorld(fosphor_gl_release(World))
    /\ last' = Call("release", "", self_gl, 0, last.op)
    /\ after_first' = NoFirst
    /\ render' = NoRender
    /\ gl_calls' = << >>

GlGetSharedId ==
    /\ ~aborted
    /\ self_gl # 0
    /\ \E id \in AllIds, map_ok \in BOOLEAN :
         LET r == fosphor_gl_get_shared_id(World, id, map_ok)
         IN  /\ SetWorld(r.w)
             /\ IF r.w.aborted
                THEN /\ last' = Call("abort", id, 0, 0, "")
                     /\ after_first' = after_first
                ELSE /\ last' = Call("get_shared_id", id, 0, r.ret,
                                      IF after_first.set THEN "later" ELSE "first")
                     /\ after_first' =
                          IF after_first.set THEN after_first
                          ELSE [ set |-> TRUE,
                                 h   |-> [i \in SharedIds |-> shared_id(r.w.gl, i)] ]
    /\ render' = NoRender
    /\ gl_calls' = << >>

(***************************************************************************)
(* fosphor_gl_draw                                                         *)
(*                                                                         *)
(* A draw is recorded as the sequence of the calls it issues that put      *)
(* something on screen (quads, polylines, grid lines, labels), that switch *)
(* the colormap stage, and the final glFinish, each an event [op, a, b].   *)
(* Matrix, blend and font set-up calls and the float coordinates are left  *)
(* out; the arguments that select what is read (texture names, polyline    *)
(* first and count, grid line and label indices) are kept.                 *)
(***************************************************************************)

FRO_LIVE       == "FRO_LIVE"
FRO_MAX_HOLD   == "FRO_MAX_HOLD"
FRO_HISTO      == "FRO_HISTO"
FRO_WATERFALL  == "FRO_WATERFALL"
FRO_LABEL_FREQ == "FRO_LABEL_FREQ"
FRO_LABEL_PWR  == "FRO_LABEL_PWR"

Flags == {FRO_LIVE, FRO_MAX_HOLD, FRO_HISTO, FRO_WATERFALL, FRO_LABEL_FREQ, FRO_LABEL_PWR}

\* options & mask
Has(o, mask) == o \cap mask # {}

Ev(op, a, b) == [ op |-> op, a |-> a, b |-> b ]

\* floor and ceiling of the rational a / b, b > 0
FloorDiv(a, b) == a \div b
CeilDiv(a, b)  == -((-a) \div b)

\* idx[0] = 1 + (int)ceilf(freq_start * (float)(FOSPHOR_FFT_LEN - 1) - 0.5f) for
\* freq_start = ks / FreqDen, computed on the rationals:
\*   ks/FreqDen * (N-1) - 1/2 = (2*ks*(N-1) - FreqDen) / (2*FreqDen)
\* (float rounding is monotone and exact at 0, 1 and N-1, so it moves no result
\* across the ends 1 and N-1 of the range)
spectrum_first(ks) ==
    1 + CeilDiv(2 * ks * (FOSPHOR_FFT_LEN - 1) - FreqDen, 2 * FreqDen)

\* idx[1] = 1 + (int)floorf(freq_stop * (float)(FOSPHOR_FFT_LEN - 1) - 0.5f)
spectrum_last_no_half(ke) ==
    1 + FloorDiv(2 * ke * (FOSPHOR_FFT_LEN - 1), 2 * FreqDen)

spectrum_last(ke) ==
    1 + FloorDiv(2 * ke * (FOSPHOR_FFT_LEN - 1) - FreqDen, 2 * FreqDen)

\* len = idx[1] - idx[0] + 1
spectrum_len(ks, ke) == spectrum_last(ke) - spectrum_first(ks) + 1

\* "Draw waterfall"
draw_waterfall_no_disable(g, o) ==
    IF Has(o, {FRO_WATERFALL})
    THEN << Ev("cmap_enable", g.tex_waterfall, g.cmap_waterfall),
            Ev("quad_waterfall", 0, 0) >>
    ELSE << >>

draw_waterfall(g, o) ==
    IF Has(o, {FRO_WATERFALL})
    THEN << Ev("cmap_enable", g.tex_waterfall, g.cmap_waterfall),
            Ev("quad_waterfall", 0, 0),
            Ev("cmap_disable", 0, 0) >>
    ELSE << >>

\* "Draw histogram", and the flat background of its else branch
draw_histogram_and_background(g, o) ==
    (IF Has(o, {FRO_HISTO})
     THEN << Ev("cmap_enable", g.tex_histogram, g.cmap_histogram),
             Ev("quad_histogram", 0, 0),
             Ev("cmap_disable", 0, 0) >>
     ELSE << >>)
    \o
    (IF Has(o, {FRO_LIVE, FRO_MAX_HOLD})
     THEN << Ev("quad_background", 0, 0) >>
     ELSE << >>)

draw_histogram(g, o) ==
    IF Has(o, {FRO_HISTO})
    THEN << Ev("cmap_enable", g.tex_histogram, g.cmap_histogram),
            Ev("quad_histogram", 0, 0),
            Ev("cmap_disable", 0, 0) >>
    ELSE IF Has(o, {FRO_LIVE, FRO_MAX_HOLD})
    THEN << Ev("quad_background", 0, 0) >>
    ELSE << >>

\* "Draw spectrum": glDrawArrays(GL_LINE_STRIP, first, count) per polyline
draw_spectrum(o, ks, ke) ==
    IF Has(o, {FRO_LIVE, FRO_MAX_HOLD})
    THEN (IF Has(o, {FRO_LIVE})
          THEN << Ev("draw_live", spectrum_first(ks), spectrum_len(ks, ke)) >>
          ELSE << >>)
         \o (IF Has(o, {FRO_MAX_HOLD})
             THEN << Ev("draw_max_hold", spectrum_first(ks) + FOSPHOR_FFT_LEN,
                        spectrum_len(ks, ke)) >>
             ELSE << >>)
    ELSE << >>

\* the condition of "Draw grid"
grid_requested_any_layer(o) ==
    Has(o, {FRO_LIVE, FRO_MAX_HOLD, FRO_HISTO, FRO_WATERFALL})

grid_requested(o) == Has(o, {FRO_LIVE, FRO_MAX_HOLD, FRO_HISTO})

\* xv_ofs = (i == 0) ? 5.0f : (i == 10 ? -5.0f : 0.0f)
xv_ofs(i) == IF i = 0 THEN 5 ELSE IF i = 10 THEN -5 ELSE 0

\* one iteration of the grid loop; lp, lf: options & FRO_LABEL_PWR, FRO_LABEL_FREQ
grid_line(lp, lf, i) ==
    << Ev("line_vertical", i, 0),
       Ev("line_horizontal", i, 0) >>
    \o (IF lp THEN << Ev("label_pwr", i, 10 - i) >> ELSE << >>)
    \o (IF lf THEN << Ev("label_freq", i - 5, xv_ofs(i)) >> ELSE << >>)

\* for (i=0; i<11; i++)
RECURSIVE grid_lines(_, _, _)
grid_lines(lp, lf, i) ==
    IF i >= 11 THEN << >> ELSE grid_line(lp, lf, i) \o grid_lines(lp, lf, i + 1)

\* the grid loop for each value of the two label bits, evaluated once
grid_loop == [lp \in BOOLEAN, lf \in BOOLEAN |-> grid_lines(lp, lf, 0)]

\* "Draw grid"
draw_grid(o) ==
    IF grid_requested(o)
    THEN grid_loop[Has(o, {FRO_LABEL_PWR}), Has(o, {FRO_LABEL_FREQ})]
    ELSE << >>

fosphor_gl_draw_early_return(g, o, ks, ke) ==
    IF ~Has(o, {FRO_LIVE, FRO_MAX_HOLD, FRO_HISTO, FRO_WATERFALL})
    THEN << >>
    ELSE draw_waterfall(g, o)
         \o draw_histogram(g, o)
         \o draw_spectrum(o, ks, ke)
         \o draw_grid(o)
         \o << Ev("glFinish", 0, 0) >>

fosphor_gl_draw(g, o, ks, ke) ==
    draw_waterfall(g, o)
    \o draw_histogram(g, o)
    \o draw_spectrum(o, ks, ke)
    \o draw_grid(o)
    \o << Ev("glFinish", 0, 0) >>

GlDraw_deferred_init ==
    /\ ~aborted
    /\ self_gl # 0
    /\ \E o \in SUBSET Flags, ks \in 0..FreqDen, ke \in 0..FreqDen :
         /\ gl_calls' = fosphor_gl_draw(gl_deferred_init(World, TRUE).gl, o, ks, ke)
         /\ render' = [ options |-> o, ks |-> ks, ke |-> ke ]
    /\ last' = Call("draw", "", 0, 0, "")
    /\ SetWorld(gl_deferred_init(World, TRUE))
    /\ UNCHANGED after_first

GlDraw ==
    /\ ~aborted
    /\ self_gl # 0
    /\ \E o \in SUBSET Flags, ks \in 0..FreqDen, ke \in 0..FreqDen :
         /\ gl_calls' = fosphor_gl_draw(gl, o, ks, ke)
         /\ render' = [ options |-> o, ks |-> ks, ke |-> ke ]
    /\ last' = Call("draw", "", 0, 0, "")
    /\ UNCHANGED life_vars
    /\ UNCHANGED after_first

Next ==
    \/ GlInit
    \/ GlRelease
    \/ GlGetSharedId
    \/ GlDraw

Spec == Init /\ [][Next]_vars

(***************************************************************************)
(* Properties                                                              *)
(***************************************************************************)

Drawn == last.op = "draw"

\* positions in the last draw of the calls whose op is in ops
At(ops) == { i \in 1..Len(gl_calls) : gl_calls[i].op \in ops }

Before(A, B) == \A i \in A, j \in B : i < j

LayerQuads  == {"quad_waterfall", "quad_histogram", "quad_background"}
Polylines   == {"draw_live", "draw_max_hold"}
GridOps     == {"line_vertical", "line_horizontal", "label_pwr", "label_freq"}
VisualFlags == {FRO_WATERFALL, FRO_HISTO, FRO_LIVE, FRO_MAX_HOLD}

\* the points glDrawArrays(mode, first, count) reads: none unless count > 0
PointsRead(e) == IF e.b > 0 THEN e.a .. (e.a + e.b - 1) ELSE {}

\* nothing of the renderer is left: no GL object, no font, no colormap
\* context, no state block
NothingResident ==
    /\ textures = {}
    /\ buffers = {}
    /\ ~font_live
    /\ ~ctx_live
    /\ ~state_live

\* the three deferred device objects, judged by the GL names in use
DeferredTextures == textures \ {gl.cmap_waterfall, gl.cmap_histogram}

NoneDeferred == DeferredTextures = {} /\ buffers = {}

AllDeferred ==
    /\ gl.tex_waterfall # gl.tex_histogram
    /\ DeferredTextures = {gl.tex_waterfall, gl.tex_histogram}
    /\ buffers = {gl.vbo_spectrum}
    /\ gl.vbo_spectrum # 0

\* C1: on an initialized, unreleased renderer the creation step of
\* gl_deferred_init runs exactly once, on the first get_shared_id, and every
\* later get_shared_id returns for its id the handle that id had when the
\* first call returned, whatever the order of the ids asked.
C1_SharedIdIdempotent ==
    /\ gen_passes <= 1
    /\ (self_gl # 0 /\ after_first.set) =>
          /\ gen_passes = 1
          /\ \A i \in SharedIds : shared_id(gl, i) = after_first.h[i]
    /\ (last.op = "get_shared_id" /\ last.id \in SharedIds) =>
          /\ last.ret = after_first.h[last.id]
          /\ last.ret # 0

C1_Witness ==
    /\ last.op = "get_shared_id"
    /\ last.note = "later"
    /\ last.id = GL_ID_TEX_WATERFALL
    /\ last.ret # 0

\* C2: only get_shared_id creates the three device objects, and it creates
\* them together: as long as no get_shared_id was made on the renderer none
\* of the three exists, draws included, and in every state either none or all
\* three exist.
C2_DeferredAllOrNone ==
    /\ NoneDeferred \/ AllDeferred
    /\ (self_gl # 0 /\ ~after_first.set /\ ~aborted) => NoneDeferred
    /\ self_gl = 0 => NoneDeferred

C2_Witness ==
    /\ Drawn
    /\ ~after_first.set
    /\ FRO_WATERFALL \in render.options
    /\ gl.cmap_waterfall \in textures
    /\ NoneDeferred

\* C3: a successful init followed immediately by release leaves nothing
\* resident, and the objects created and destroyed match kind by kind: the
\* state block, the font, the colormap context and the two LUT textures, each
\* created once and destroyed once, and no device object at all.
C3_InitReleaseRoundTrip ==
    (last.op = "release" /\ last.note = "init" /\ last.ptr # 0) =>
        /\ NothingResident
        /\ self_gl = 0
        /\ created = destroyed
        /\ created = [k \in Kinds |->
                        IF k = "texture" THEN 2 ELSE IF k = "buffer" THEN 0 ELSE 1]
        /\ faults = {}

C3_Witness ==
    /\ last.op = "release"
    /\ last.note = "init"
    /\ last.ptr # 0
    /\ destroyed["texture"] = 2

\* C4: when a step of init fails, init returns a non-zero value, the owner's
\* reference is NULL on return, and everything created up to the failing step
\* has been released exactly once: nothing is resident, created and destroyed
\* match kind by kind and nothing was freed twice.
C4_InitFailureTearsDown ==
    (last.op = "init" /\ last.note # "") =>
        /\ last.ret # 0
        /\ self_gl = 0
        /\ NothingResident
        /\ created = destroyed
        /\ faults = {}

C4_Witness ==
    /\ last.op = "init"
    /\ last.note = "fosphor_gl_cmap_generate_histogram"
    /\ last.ret # 0
    /\ destroyed["texture"] >= 1
    /\ destroyed["font"] = 1

\* C5: release never faults: it leaves the owner's reference NULL, a release
\* that finds the reference NULL changes nothing (a second release in a row,
\* or a release before any init), and no object is destroyed twice.
C5_ReleaseTwiceSafe ==
    [][ last'.op = "release" =>
          /\ self_gl' = 0
          /\ faults' = {}
          /\ \A k \in Kinds : destroyed'[k] <= created'[k]
          /\ self_gl = 0 => UNCHANGED life_vars ]_vars

C5_Witness ==
    /\ last.op = "release"
    /\ last.note = "release"
    /\ last.ptr = 0
    /\ created["state"] = 1

\* f * (N-1) - 1/2 for f = k / FreqDen, as a numerator over 2 * FreqDen
HalfBinBelow(k) == 2 * k * (FOSPHOR_FFT_LEN - 1) - FreqDen

\* m is the ceiling, the floor, of the rational num / den, den > 0
IsCeil(m, num, den)  == den * (m - 1) < num /\ num <= den * m
IsFloor(m, num, den) == den * m <= num /\ num < den * (m + 1)

\* C6 as claimed: for every freq_start, freq_stop in [0,1] the polylines read
\* only points 1..N-1 (live) and N+1..2N-1 (max-hold), the full window gives
\* exactly 1..N-1, and count is never negative.
C6_Original ==
    Drawn =>
        \A i \in At(Polylines) :
            LET e    == gl_calls[i]
                base == IF e.op = "draw_live" THEN 0 ELSE FOSPHOR_FFT_LEN
            IN  /\ e.b >= 0
                /\ PointsRead(e) \subseteq (base + 1) .. (base + FOSPHOR_FFT_LEN - 1)
                /\ (render.ks = 0 /\ render.ke = FreqDen) =>
                      PointsRead(e) = (base + 1) .. (base + FOSPHOR_FFT_LEN - 1)

\* C6 amended: with first = 1 + ceil(freq_start*(N-1) - 0.5), last = 1 +
\* floor(freq_stop*(N-1) - 0.5) and count = last - first + 1, for every
\* freq_start, freq_stop in [0,1] the polylines read only points 1..N-1 (live)
\* and N+1..2N-1 (max-hold), and the full window gives exactly 1..N-1; count
\* is never negative when freq_start <= freq_stop, and is zero or negative, so
\* that no point is read, when freq_start > freq_stop.
C6_IndexRange ==
    Drawn =>
        \A i \in At(Polylines) :
            LET e    == gl_calls[i]
                base == IF e.op = "draw_live" THEN 0 ELSE FOSPHOR_FFT_LEN
            IN  /\ render.ks <= render.ke => e.b >= 0
                /\ render.ks > render.ke => e.b <= 0
                /\ IsCeil(e.a - base - 1, HalfBinBelow(render.ks), 2 * FreqDen)
                /\ IsFloor(e.a + e.b - 2 - base, HalfBinBelow(render.ke), 2 * FreqDen)
                /\ PointsRead(e) \subseteq (base + 1) .. (base + FOSPHOR_FFT_LEN - 1)
                /\ (render.ks = 0 /\ render.ke = FreqDen) =>
                      PointsRead(e) = (base + 1) .. (base + FOSPHOR_FFT_LEN - 1)

C6_Witness ==
    /\ Drawn
    /\ render.ks = 0
    /\ render.ke = FreqDen
    /\ \E i, j \in 1..Len(gl_calls) :
         /\ gl_calls[i].op = "draw_live"
         /\ gl_calls[j].op = "draw_max_hold"
         /\ PointsRead(gl_calls[i]) = 1 .. (FOSPHOR_FFT_LEN - 1)
         /\ PointsRead(gl_calls[j]) = (FOSPHOR_FFT_LEN + 1) .. (2 * FOSPHOR_FFT_LEN - 1)

\* C7: for every combination of option bits a draw issues the waterfall quad
\* iff waterfall is requested, then the histogram quad iff histogram is
\* requested, else the background quad iff live or max-hold is requested, then
\* the live polyline and then the max-hold polyline, each iff requested, each
\* at most once; histogram and background quad are never both drawn.
C7_LayerOrder ==
    Drawn =>
        LET o == render.options
            n(op) == Cardinality(At({op}))
        IN  /\ n("quad_waterfall")  = IF FRO_WATERFALL \in o THEN 1 ELSE 0
            /\ n("quad_histogram")  = IF FRO_HISTO \in o THEN 1 ELSE 0
            /\ n("quad_background") =
                  IF FRO_HISTO \notin o /\ Has(o, {FRO_LIVE, FRO_MAX_HOLD}) THEN 1 ELSE 0
            /\ n("draw_live")       = IF FRO_LIVE \in o THEN 1 ELSE 0
            /\ n("draw_max_hold")   = IF FRO_MAX_HOLD \in o THEN 1 ELSE 0
            /\ n("quad_histogram") + n("quad_background") <= 1
            /\ Before(At({"quad_waterfall"}), At({"quad_histogram", "quad_background"}))
            /\ Before(At(LayerQuads), At(Polylines))
            /\ Before(At({"draw_live"}), At({"draw_max_hold"}))

C7_Witness ==
    /\ Drawn
    /\ render.options = {FRO_WATERFALL, FRO_LIVE, FRO_MAX_HOLD}
    /\ At({"quad_background"}) # {}
    /\ At({"quad_waterfall"}) # {}

\* the 11 grid lines of the overlay are all there, with the labels asked for
GridDrawn ==
    /\ Cardinality(At({"line_vertical"})) = 11
    /\ Cardinality(At({"line_horizontal"})) = 11
    /\ Cardinality(At({"label_pwr"})) =
          IF FRO_LABEL_PWR \in render.options THEN 11 ELSE 0
    /\ Cardinality(At({"label_freq"})) =
          IF FRO_LABEL_FREQ \in render.options THEN 11 ELSE 0

\* C8 as claimed: the grid (with the labels asked for) is drawn if any of
\* waterfall, histogram, live, max-hold is requested, after every layer of the
\* frame, and nothing of it is drawn when none is requested.
C8_Original ==
    Drawn =>
        /\ Has(render.options, VisualFlags) => GridDrawn
        /\ ~Has(render.options, VisualFlags) => At(GridOps) = {}
        /\ Before(At(LayerQuads \cup Polylines), At(GridOps))

\* C8 amended: the grid is drawn exactly when histogram, live or max-hold is
\* requested (a waterfall alone gets no grid), its labels only for the label
\* bits that are set, and it is drawn last: after every layer of the frame and
\* followed by nothing but the completion barrier.
C8_GridLast ==
    Drawn =>
        /\ Has(render.options, {FRO_HISTO, FRO_LIVE, FRO_MAX_HOLD}) => GridDrawn
        /\ ~Has(render.options, {FRO_HISTO, FRO_LIVE, FRO_MAX_HOLD}) => At(GridOps) = {}
        /\ Before(At(LayerQuads \cup Polylines), At(GridOps))
        /\ \A i \in At(GridOps), j \in 1..Len(gl_calls) :
              j > i => gl_calls[j].op \in GridOps \cup {"glFinish"}

C8_Witness ==
    /\ Drawn
    /\ render.options = {FRO_WATERFALL, FRO_HISTO, FRO_MAX_HOLD, FRO_LABEL_PWR}
    /\ GridDrawn
    /\ gl_calls[Len(gl_calls) - 1].op = "label_pwr"

\* C9: every draw, whatever the option bits (none at all included), issues
\* glFinish exactly once, as its last call.
C9_FinishOnce ==
    Drawn =>
        /\ Len(gl_calls) >= 1
        /\ At({"glFinish"}) = {Len(gl_calls)}

C9_Witness ==
    /\ Drawn
    /\ render.options = {}
    /\ gl_calls = << Ev("glFinish", 0, 0) >>

\* the colormap stage is enabled when call k is issued
CmapOn(k) ==
    \E i \in At({"cmap_enable"}) :
        /\ i < k
        /\ \A j \in At({"cmap_disable"}) : ~(i < j /\ j < k)

\* C10: every colormap enable is followed by exactly one quad, the waterfall
\* or the histogram quad with its own texture and LUT, and then a disable;
\* both of these quads are drawn with the stage enabled; the stage is disabled
\* when the background quad, a polyline, a grid line or a label is drawn, and
\* when draw returns.
C10_CmapWrapsOneQuad ==
    Drawn =>
        /\ \A i \in At({"cmap_enable"}) :
              /\ i + 2 <= Len(gl_calls)
              /\ gl_calls[i + 1].op \in {"quad_waterfall", "quad_histogram"}
              /\ gl_calls[i + 2].op = "cmap_disable"
              /\ gl_calls[i + 1].op = "quad_waterfall" =>
                    gl_calls[i].a = gl.tex_waterfall /\ gl_calls[i].b = gl.cmap_waterfall
              /\ gl_calls[i + 1].op = "quad_histogram" =>
                    gl_calls[i].a = gl.tex_histogram /\ gl_calls[i].b = gl.cmap_histogram
        /\ \A k \in At({"quad_waterfall", "quad_histogram"}) : CmapOn(k)
        /\ \A k \in At({"quad_background"} \cup Polylines \cup GridOps \cup {"glFinish"}) :
              ~CmapOn(k)
        /\ ~CmapOn(Len(gl_calls) + 1)
        /\ Cardinality(At({"cmap_enable"})) = Cardinality(At({"cmap_disable"}))

C10_Witness ==
    /\ Drawn
    /\ render.options = {FRO_WATERFALL, FRO_HISTO, FRO_LIVE}
    /\ Cardinality(At({"cmap_enable"})) = 2
    /\ At({"draw_live"}) # {}

====
